---- MODULE Spec2Model ----
(***************************************************************************)
(* A model of multi_tool_agent/agent.py: the two module-level lookup       *)
(* tables (CITY_DATABASE, WEATHER_DATA) and the seven tool functions that  *)
(* read them.  Python strings that the code inspects character by          *)
(* character (city names, queries, keys, display names, countries) are     *)
(* sequences of one-character strings; opaque strings are TLA+ strings.    *)
(* Floating-point degrees, radians and kilometres are fixed-point integers *)
(* (see Scale).  The wall clock and the runtime's timezone database are    *)
(* the environment: clock counts the intervals between daylight-saving     *)
(* transitions, tzdb is the set of identifiers ZoneInfo can resolve.       *)
(***************************************************************************)
EXTENDS Integers, Sequences, FiniteSets, TLC

VARIABLES CITY_DATABASE, WEATHER_DATA, tzdb, clock, pc, frame, ret

vars == <<CITY_DATABASE, WEATHER_DATA, tzdb, clock, pc, frame, ret>>

(***************************************************************************)
(* Bounds of the model.                                                    *)
(***************************************************************************)
\* The clock runs through the intervals 0..MaxClock.
MaxClock == 6

\* The threads that call the tools: thread 1 alone in Spec, both in SpecConc.
Threads == {1, 2}

(***************************************************************************)
(* Python str methods, on sequences of one-character strings.              *)
(***************************************************************************)
LowerAlphabet ==
    <<"a","b","c","d","e","f","g","h","i","j","k","l","m",
      "n","o","p","q","r","s","t","u","v","w","x","y","z">>

UpperAlphabet ==
    <<"A","B","C","D","E","F","G","H","I","J","K","L","M",
      "N","O","P","Q","R","S","T","U","V","W","X","Y","Z">>

Whitespace == {" ", "\t", "\n"}

IsUpper(c) == \E i \in 1..26 : UpperAlphabet[i] = c

IsLower(c) == \E i \in 1..26 : LowerAlphabet[i] = c

IsCased(c) == IsUpper(c) \/ IsLower(c)

LowerChar(c) ==
    IF IsUpper(c)
    THEN LowerAlphabet[CHOOSE i \in 1..26 : UpperAlphabet[i] = c]
    ELSE c

UpperChar(c) ==
    IF IsLower(c)
    THEN UpperAlphabet[CHOOSE i \in 1..26 : LowerAlphabet[i] = c]
    ELSE c

\* str.lower()
Lower(s) == [i \in 1..Len(s) |-> LowerChar(s[i])]

\* str.upper()
Upper(s) == [i \in 1..Len(s) |-> UpperChar(s[i])]

\* str.title(): a cased character is upper-cased when it follows an uncased
\* one (or starts the string) and lower-cased otherwise.
Title(s) ==
    [i \in 1..Len(s) |->
        IF i = 1 \/ ~IsCased(s[i - 1]) THEN UpperChar(s[i]) ELSE LowerChar(s[i])]

RECURSIVE LStrip(_)
LStrip(s) ==
    IF s # <<>> /\ Head(s) \in Whitespace THEN LStrip(Tail(s)) ELSE s

RECURSIVE RStrip(_)
RStrip(s) ==
    IF s # <<>> /\ s[Len(s)] \in Whitespace
    THEN RStrip(SubSeq(s, 1, Len(s) - 1))
    ELSE s

\* str.strip()
Strip(s) == RStrip(LStrip(s))

\* sub in s
Contains(sub, s) ==
    \E i \in 0..(Len(s) - Len(sub)) : SubSeq(s, i + 1, i + Len(sub)) = sub

(***************************************************************************)
(* Python dicts keep insertion order: a dict is the sequence of its items. *)
(***************************************************************************)
Item(k, v) == [key |-> k, value |-> v]

\* k in d
HasKey(d, k) == \E i \in 1..Len(d) : d[i].key = k

\* d[k], for a key of d
Get(d, k) == d[CHOOSE i \in 1..Len(d) : d[i].key = k].value

\* None
None == [py |-> "None"]

\* A reference to the object stored under key k of a module-level table:
\* the value the caller receives is that object itself, not a copy of it.
Ref(table, k) == [py |-> "ref", table |-> table, key |-> k]

(***************************************************************************)
(* CITY_DATABASE and WEATHER_DATA as the module builds them at import.     *)
(* Coordinates are degrees in units of 1/Scale.                            *)
(***************************************************************************)
Scale == 10000

CityInfo(name, country, timezone, population, coordinates, currency, language) ==
    [name |-> name, country |-> country, timezone |-> timezone,
     population |-> population, coordinates |-> coordinates,
     currency |-> currency, language |-> language]

InitialCityDatabase ==
    << Item(<<"n","e","w"," ","y","o","r","k">>,
            CityInfo(<<"N","e","w"," ","Y","o","r","k">>,
                     <<"U","n","i","t","e","d"," ","S","t","a","t","e","s">>,
                     "America/New_York", 8336817, <<407128, -740060>>,
                     "USD", "English")),
       Item(<<"l","o","n","d","o","n">>,
            CityInfo(<<"L","o","n","d","o","n">>,
                     <<"U","n","i","t","e","d"," ","K","i","n","g","d","o","m">>,
                     "Europe/London", 9648110, <<515074, -1278>>,
                     "GBP", "English")),
       Item(<<"t","o","k","y","o">>,
            CityInfo(<<"T","o","k","y","o">>,
                     <<"J","a","p","a","n">>,
                     "Asia/Tokyo", 13960000, <<356762, 1396503>>,
                     "JPY", "Japanese")),
       Item(<<"l","a","g","o","s">>,
            CityInfo(<<"L","a","g","o","s">>,
                     <<"N","i","g","e","r","i","a">>,
                     "Africa/Lagos", 15388000, <<65244, 33792>>,
                     "NGN", "English")),
       Item(<<"p","a","r","i","s">>,
            CityInfo(<<"P","a","r","i","s">>,
                     <<"F","r","a","n","c","e">>,
                     "Europe/Paris", 2165423, <<488566, 23522>>,
                     "EUR", "French")),
       Item(<<"d","u","b","a","i">>,
            CityInfo(<<"D","u","b","a","i">>,
                     <<"U","A","E">>,
                     "Asia/Dubai", 3331420, <<252048, 552708>>,
                     "AED", "Arabic")),
       Item(<<"s","y","d","n","e","y">>,
            CityInfo(<<"S","y","d","n","e","y">>,
                     <<"A","u","s","t","r","a","l","i","a">>,
                     "Australia/Sydney", 5312163, <<-338688, 1512093>>,
                     "AUD", "English")),
       Item(<<"m","u","m","b","a","i">>,
            CityInfo(<<"M","u","m","b","a","i">>,
                     <<"I","n","d","i","a">>,
                     "Asia/Kolkata", 20411274, <<190760, 728777>>,
                     "INR", "Hindi/English")) >>

\* pressure is in tenths of a hectopascal.
Weather(condition, temperature_c, temperature_f, humidity, wind_speed, wind_direction, pressure, visibility, uv_index, air_quality, feels_like_c, feels_like_f, alerts) ==
    [condition |-> condition, temperature_c |-> temperature_c,
     temperature_f |-> temperature_f, humidity |-> humidity,
     wind_speed |-> wind_speed, wind_direction |-> wind_direction,
     pressure |-> pressure, visibility |-> visibility, uv_index |-> uv_index,
     air_quality |-> air_quality, feels_like_c |-> feels_like_c,
     feels_like_f |-> feels_like_f, alerts |-> alerts]

InitialWeatherData ==
    << Item(<<"n","e","w"," ","y","o","r","k">>,
            Weather("sunny", 25, 77, 60, 15, "SW", 10132, 10, 6, "Good",
                    27, 81, <<>>)),
       Item(<<"l","o","n","d","o","n">>,
            Weather("cloudy", 18, 64, 75, 10, "W", 10085, 8, 3, "Moderate",
                    16, 61, <<>>)),
       Item(<<"t","o","k","y","o">>,
            Weather("partly cloudy", 28, 82, 65, 8, "E", 10151, 12, 7, "Good",
                    31, 88, <<>>)),
       Item(<<"l","a","g","o","s">>,
            Weather("thunderstorms", 26, 79, 94, 5, "W", 10098, 5, 4, "Moderate",
                    28, 83,
                    << [type |-> "Thunderstorm", severity |-> "moderate",
                        description |-> "Scattered thunderstorms expected",
                        expires |-> "2025-06-03T20:00:00"] >>)),
       Item(<<"p","a","r","i","s">>,
            Weather("rainy", 16, 61, 80, 20, "NW", 10052, 6, 2, "Good",
                    14, 57, <<>>)) >>

(***************************************************************************)
(* Results.  A tool either returns a dict or raises; ret[t] is what the    *)
(* last call of thread t did, with the call it was.                        *)
(***************************************************************************)
NoRet == [kind |-> "none"]

Return(op, args, value) ==
    [kind |-> "return", op |-> op, args |-> args, value |-> value]

Raise(op, args, exc) ==
    [kind |-> "raise", op |-> op, args |-> args, exc |-> exc]

\* A returned value or a raised exception, before it is tied to its call.
Returns(value) == [kind |-> "return", value |-> value]

Raises(exc) == [kind |-> "raise", exc |-> exc]

Outcome(op, args, o) ==
    IF o.kind = "return" THEN Return(op, args, o.value) ELSE Raise(op, args, o.exc)

\* [city.title() for city in TABLE.keys()], joined by the caller with ", "
AvailableCities(table) == [i \in 1..Len(table) |-> Title(table[i].key)]

(***************************************************************************)
(* get_city_info                                                           *)
(***************************************************************************)
\* The body of get_city_info once city_lower is computed.
city_info_lookup(db, city, city_lower) ==
    IF ~HasKey(db, city_lower)
    THEN Returns([status |-> "error",
                  error_message |->
                      [text |-> "City information for '{city}' not available. Try: {available_cities}. Or I can search the web for it.",
                       city |-> city,
                       available_cities |-> AvailableCities(db)]])
    ELSE LET city_info == Get(db, city_lower) IN
         Returns([status |-> "success",
                  report |->
                      [text |-> "{name}, {country} / Population / Coordinates / Currency / Language / Timezone",
                       name |-> city_info.name,
                       country |-> city_info.country,
                       population |-> city_info.population,
                       coordinates |-> city_info.coordinates,
                       currency |-> city_info.currency,
                       language |-> city_info.language,
                       timezone |-> city_info.timezone],
                  city_data |-> Ref("CITY_DATABASE", city_lower)])

\* Faulty variant: city_lower = city.lower(), the strip() forgotten.
get_city_info_unstripped(db, city) == city_info_lookup(db, city, Lower(city))

get_city_info(db, city) == city_info_lookup(db, city, Strip(Lower(city)))

(***************************************************************************)
(* get_weather                                                             *)
(***************************************************************************)
\* The alerts the report lists: one line per alert, in order.
AlertLines(alerts) ==
    [i \in 1..Len(alerts) |->
        [type |-> alerts[i].type, severity |-> alerts[i].severity,
         description |-> alerts[i].description]]

\* The branch of get_weather for a city of the table.
weather_found(wd, city, city_lower, detailed) ==
    LET weather == Get(wd, city_lower) IN
         Returns([status |-> "success",
                  report |->
                      [text |-> "Weather in {city}: {condition} / Temperature / Feels like / Humidity / Wind",
                       city |-> Title(city),
                       condition |-> weather.condition,
                       temperature |-> <<weather.temperature_c, weather.temperature_f>>,
                       feels_like |-> <<weather.feels_like_c, weather.feels_like_f>>,
                       humidity |-> weather.humidity,
                       wind |-> <<weather.wind_speed, weather.wind_direction>>,
                       details |->
                           IF detailed
                           THEN << weather.pressure, weather.visibility,
                                   weather.uv_index, weather.air_quality >>
                           ELSE <<>>,
                       alerts |-> AlertLines(weather.alerts)],
                  raw_data |->
                      IF detailed THEN Ref("WEATHER_DATA", city_lower) ELSE None])

\* The else branch of get_weather.
weather_not_found(wd, city) ==
    Returns([status |-> "error",
             error_message |->
                 [text |-> "Weather data for '{city}' not available. Try: {available_cities}. Or I can search the web for it.",
                  city |-> city,
                  available_cities |-> AvailableCities(wd)]])

\* Faulty variant: the table is indexed without the membership test.
get_weather_unchecked(wd, city, detailed) ==
    LET city_lower == Strip(Lower(city)) IN
    IF HasKey(wd, city_lower)
    THEN weather_found(wd, city, city_lower, detailed)
    ELSE Raises("KeyError")

get_weather(wd, city, detailed) ==
    LET city_lower == Strip(Lower(city)) IN
    IF HasKey(wd, city_lower)
    THEN weather_found(wd, city, city_lower, detailed)
    ELSE weather_not_found(wd, city)

(***************************************************************************)
(* The runtime's timezone database and clock.                              *)
(*                                                                         *)
(* A year is cut at the daylight-saving transitions of the catalog's zones *)
(* into EpochsPerYear intervals; the clock counts intervals:               *)
(*   0  from the first Sunday of November  (New York back to UTC-5)        *)
(*   1  from the second Sunday of March    (New York to UTC-4)             *)
(*   2  from the last Sunday of March      (London, Paris forward, at the  *)
(*                                          same instant, 01:00 UTC)       *)
(*   3  from the first Sunday of April     (Sydney back to UTC+10)         *)
(*   4  from the first Sunday of October   (Sydney to UTC+11)              *)
(*   5  from the last Sunday of October    (London, Paris back)            *)
(***************************************************************************)
EpochsPerYear == 6

IanaZones ==
    {"America/New_York", "Europe/London", "Asia/Tokyo", "Africa/Lagos",
     "Europe/Paris", "Asia/Dubai", "Australia/Sydney", "Asia/Kolkata"}

\* The timezone databases a runtime may carry: the full one, and one that
\* knows Kolkata only under its older name Asia/Calcutta.
TzDatabases == {IanaZones, IanaZones \ {"Asia/Kolkata"}}

SecondsPerHour == 3600

\* datetime.utcoffset() of an aware datetime of zone tz at instant t, in seconds.
UtcOffset(tz, t) ==
    LET e == t % EpochsPerYear IN
    CASE tz = "America/New_York" -> IF e = 0 THEN -5 * SecondsPerHour ELSE -4 * SecondsPerHour
      [] tz = "Europe/London"    -> IF e \in {2, 3, 4} THEN 1 * SecondsPerHour ELSE 0
      [] tz = "Europe/Paris"     -> IF e \in {2, 3, 4} THEN 2 * SecondsPerHour ELSE 1 * SecondsPerHour
      [] tz = "Australia/Sydney" -> IF e = 3 THEN 10 * SecondsPerHour ELSE 11 * SecondsPerHour
      [] tz = "Asia/Tokyo"       -> 9 * SecondsPerHour
      [] tz = "Africa/Lagos"     -> 1 * SecondsPerHour
      [] tz = "Asia/Dubai"       -> 4 * SecondsPerHour
      [] tz = "Asia/Kolkata"     -> 5 * SecondsPerHour + SecondsPerHour \div 2

\* datetime.datetime.now(tz) read when the clock shows t.
Now(tz, t) == [instant |-> t, tz |-> tz, utcoffset |-> UtcOffset(tz, t)]

\* ZoneInfo(key) succeeds exactly for the identifiers the database knows.
ZoneInfoKnown(db, key) == key \in db

Abs(x) == IF x < 0 THEN -x ELSE x

\* strftime('%z'): sign, hours, minutes.
StrftimeZ(now) ==
    << IF now.utcoffset < 0 THEN "-" ELSE "+",
       Abs(now.utcoffset) \div SecondsPerHour,
       (Abs(now.utcoffset) % SecondsPerHour) \div 60 >>

(***************************************************************************)
(* get_current_time                                                        *)
(***************************************************************************)
FormatTypes == {"standard", "business", "iso", "relative"}

get_current_time(db, zones, t, city, format_type) ==
    LET city_lower == Strip(Lower(city)) IN
    IF ~HasKey(db, city_lower)
    THEN Returns([status |-> "error",
                  error_message |->
                      [text |-> "Time zone data for '{city}' not available. Try: {available_cities}. Or I can search the web for it.",
                       city |-> city,
                       available_cities |-> AvailableCities(db)]])
    ELSE LET city_info == Get(db, city_lower) IN
         IF ~ZoneInfoKnown(zones, city_info.timezone)
         THEN \* ZoneInfoNotFoundError, caught by the except clause
              Returns([status |-> "error",
                       error_message |->
                           [text |-> "Error getting time for {city}: {str(e)}",
                            city |-> city,
                            e |-> "ZoneInfoNotFoundError"]])
         ELSE LET now == Now(city_info.timezone, t)
                  \* formats.get(format_type, formats["standard"])
                  style == IF format_type \in FormatTypes
                           THEN format_type ELSE "standard"
              IN Returns([status |-> "success",
                          report |->
                              [text |-> "Current time in {city}: {formatted_time}",
                               city |-> Title(city),
                               formatted_time |-> [style |-> style, now |-> now]],
                          timestamp |-> now,
                          timezone |-> city_info.timezone,
                          utc_offset |-> StrftimeZ(now)])

(***************************************************************************)
(* get_weather_forecast                                                    *)
(***************************************************************************)
forecast_conditions ==
    <<"sunny", "partly cloudy", "cloudy", "rainy", "thunderstorms">>

\* int(n / d) for d > 0: truncation toward zero.
IntTrunc(n, d) == IF n >= 0 THEN n \div d ELSE -((-n) \div d)

\* The line of the report for loop index i (0-based).
ForecastLine(base_weather, t, i) ==
    LET temp_variation == IF i < 3 THEN -2 + i ELSE 1 - i
        temp_c == base_weather.temperature_c + temp_variation
        temp_f == IntTrunc(temp_c * 9 + 32 * 5, 5)
        condition == forecast_conditions[(i % Len(forecast_conditions)) + 1]
    IN [date |-> [today |-> t, plus_days |-> i + 1],
        condition |-> condition, temp_c |-> temp_c, temp_f |-> temp_f]

get_weather_forecast(wd, t, city, days) ==
    LET city_lower == Strip(Lower(city)) IN
    IF ~HasKey(wd, city_lower)
    THEN Returns([status |-> "error",
                  error_message |->
                      [text |-> "Weather forecast data for '{city}' not available in my database. I can try to search the web for it.",
                       city |-> city]])
    ELSE IF days < 1 \/ days > 7
    THEN Returns([status |-> "error",
                  error_message |->
                      [text |-> "Forecast days must be between 1 and 7"]])
    ELSE LET base_weather == Get(wd, city_lower) IN
         Returns([status |-> "success",
                  report |->
                      [text |-> "{days}-Day Weather Forecast for {city}",
                       days |-> days,
                       city |-> Title(city),
                       lines |-> [k \in 1..days |-> ForecastLine(base_weather, t, k - 1)]],
                  forecast_days |-> days])

(***************************************************************************)
(* search_cities_in_database                                               *)
(***************************************************************************)
\* Faulty variant: the country is not searched.
MatchesNameOrKey(query_lower, item) ==
    \/ Contains(query_lower, Lower(item.value.name))
    \/ Contains(query_lower, item.key)

\* The condition of the loop body, for one item of the catalog.
Matches(query_lower, item) ==
    \/ Contains(query_lower, Lower(item.value.name))
    \/ Contains(query_lower, Lower(item.value.country))
    \/ Contains(query_lower, item.key)

\* The loop over CITY_DATABASE.items(), from item i on, appending to matches.
RECURSIVE SearchLoop(_, _, _, _)
SearchLoop(db, query_lower, i, matches) ==
    IF i > Len(db) THEN matches
    ELSE SearchLoop(db, query_lower, i + 1,
            IF Matches(query_lower, db[i])
            THEN Append(matches,
                        [name |-> db[i].value.name,
                         country |-> db[i].value.country,
                         population |-> db[i].value.population])
            ELSE matches)

\* The branch of search_cities_in_database taken when matches is not empty.
search_found(query, matches) ==
    Returns([status |-> "success",
             report |->
                 [text |-> "Found {len(matches)} cities in my database matching '{query}'",
                  count |-> Len(matches),
                  query |-> query,
                  lines |-> matches],
             matches |-> matches,
             count |-> Len(matches)])

\* The else branch of search_cities_in_database.
search_not_found(query) ==
    Returns([status |-> "error",
             error_message |->
                 [text |-> "No cities found in my database matching '{query}'. I can perform a web search if you'd like.",
                  query |-> query]])

\* Faulty variant: the matches are returned whether or not there are any.
search_cities_always_found(db, query) ==
    search_found(query, SearchLoop(db, Strip(Lower(query)), 1, <<>>))

search_cities_in_database(db, query) ==
    LET query_lower == Strip(Lower(query))
        matches == SearchLoop(db, query_lower, 1, <<>>)
    IN IF matches # <<>>
       THEN search_found(query, matches)
       ELSE search_not_found(query)

(***************************************************************************)
(* Floating-point arithmetic of get_travel_info, in fixed point: a float x *)
(* is the integer nearest to x * Scale.  IEEE operations are symmetric in  *)
(* the sign of their operands, so every rounding here rounds the magnitude *)
(* and restores the sign.                                                  *)
(***************************************************************************)
Sign(x) == IF x < 0 THEN -1 ELSE 1

\* n / d (d > 0) rounded to the nearest integer, halves to the even one.
RoundDiv(n, d) ==
    LET q == Abs(n) \div d
        r == Abs(n) % d
        up == (2 * r > d) \/ (2 * r = d /\ q % 2 = 1)
    IN Sign(n) * (IF up THEN q + 1 ELSE q)

\* x * y
FMul(x, y) == RoundDiv(x * y, Scale)

\* pi and pi / 2
Pi == 31416

HalfPi == 15708

\* pi / 180, in units of 10^-7
RadiansPerDegree == 174533

\* math.radians(deg)
Radians(deg) ==
    LET q == Abs(deg) \div 1000
        r == Abs(deg) % 1000
    IN Sign(deg) * (RoundDiv(q * RadiansPerDegree, 10000)
                    + RoundDiv(r * RadiansPerDegree, 10000000))

\* The Taylor series of sine is summed up to the term of index SinTerms.
SinTerms == 6

\* The series from the term of index k on (term is the term of index k - 1),
\* for 0 <= x <= pi / 2.

RECURSIVE SinSeries(_, _, _, _)
SinSeries(x2, term, k, sum) ==
    IF k > SinTerms THEN sum
    ELSE LET next == -RoundDiv(FMul(term, x2), (2 * k) * (2 * k + 1))
         IN SinSeries(x2, next, k + 1, sum + next)

\* math.sin(x), for -pi <= x <= pi
Sin(x) ==
    LET m == IF Abs(x) > HalfPi THEN Pi - Abs(x) ELSE Abs(x)
    IN Sign(x) * SinSeries(FMul(m, m), m, 1, m)

\* math.cos(x), for -pi / 2 <= x <= pi / 2
Cos(x) == Sin(HalfPi - Abs(x))

\* The integer square root of n >= 0, between lo and hi.
RECURSIVE ISqrt(_, _, _)
ISqrt(n, lo, hi) ==
    IF lo >= hi THEN lo
    ELSE LET mid == (lo + hi + 1) \div 2
         IN IF mid * mid <= n THEN ISqrt(n, mid, hi) ELSE ISqrt(n, lo, mid - 1)

\* math.sqrt(x), for 0 <= x
Sqrt(x) ==
    LET n == x * Scale
        s == ISqrt(n, 0, 2 * Scale)
    IN IF n - s * s > s THEN s + 1 ELSE s

\* math.asin(y), for 0 <= y <= 1: the least angle in lo..hi whose sine reaches y.
RECURSIVE AsinSearch(_, _, _)
AsinSearch(y, lo, hi) ==
    IF lo >= hi THEN lo
    ELSE LET mid == (lo + hi) \div 2
         IN IF Sin(mid) >= y THEN AsinSearch(y, lo, mid) ELSE AsinSearch(y, mid + 1, hi)

Asin(y) == AsinSearch(y, 0, HalfPi)

EarthRadiusKm == 6371

\* Faulty variant: cos(lat1) * cos(lat1), the second latitude mistyped.
HaversineSameLatitude(coordinates1, coordinates2) ==
    LET lat1 == Radians(coordinates1[1])
        lon1 == Radians(coordinates1[2])
        lat2 == Radians(coordinates2[1])
        lon2 == Radians(coordinates2[2])
        dlat == lat2 - lat1
        dlon == lon2 - lon1
        sdlat == Sin(RoundDiv(dlat, 2))
        sdlon == Sin(RoundDiv(dlon, 2))
    IN FMul(sdlat, sdlat) + FMul(FMul(Cos(lat1), Cos(lat1)), FMul(sdlon, sdlon))

\* The haversine term a of two coordinate pairs (degrees).
HaversineA(coordinates1, coordinates2) ==
    LET lat1 == Radians(coordinates1[1])
        lon1 == Radians(coordinates1[2])
        lat2 == Radians(coordinates2[1])
        lon2 == Radians(coordinates2[2])
        dlat == lat2 - lat1
        dlon == lon2 - lon1
        sdlat == Sin(RoundDiv(dlat, 2))
        sdlon == Sin(RoundDiv(dlon, 2))
    IN FMul(sdlat, sdlat) + FMul(FMul(Cos(lat1), Cos(lat2)), FMul(sdlon, sdlon))

\* math.sqrt and math.asin raise ValueError outside their domains.
HaversineDefined(a) == a >= 0 /\ Sqrt(a) <= Scale

\* distance_km = 6371 * 2 * asin(sqrt(a))
HaversineKm(a) == EarthRadiusKm * (2 * Asin(Sqrt(a)))

\* round(x)
Round(x) == RoundDiv(x, Scale)

\* distance_km * 0.621371, formatted with no decimals
Miles(distance_km) == RoundDiv(Round(distance_km) * 6214, Scale)

\* timedelta.total_seconds() / 3600
TotalHours(seconds) == RoundDiv(seconds * Scale, SecondsPerHour)

(***************************************************************************)
(* Name resolution: a name an expression reads must be bound in the        *)
(* function's locals, the module's globals or the builtins, or evaluating  *)
(* it raises NameError.                                                    *)
(***************************************************************************)
ModuleGlobals ==
    {"datetime", "json", "ZoneInfo", "Dict", "List", "Optional", "Union",
     "dataclass", "Agent", "google_search", "AgentTool", "Runner",
     "InMemorySessionService", "types", "WeatherAlert", "CityInfo",
     "CITY_DATABASE", "WEATHER_DATA", "get_weather", "get_current_time",
     "get_city_info", "compare_cities", "get_weather_forecast",
     "search_cities_in_database", "get_travel_info", "custom_functions_agent",
     "search_agent", "root_agent", "APP_NAME", "USER_ID", "SESSION_ID",
     "setup_and_run_agent", "call_agent"}

Builtins == {"abs", "round", "len", "int", "str", "range"}

Bound(names, locals) == \A n \in names : n \in locals \cup ModuleGlobals \cup Builtins

\* The names assigned in get_travel_info before its report is formatted.
TravelLocals ==
    {"origin", "destination", "origin_lower", "dest_lower", "origin_info",
     "dest_info", "math", "lat1", "lon1", "lat2", "lon2", "dlat", "dlon",
     "a", "c", "distance_km", "origin_tz", "dest_tz", "now_origin",
     "now_dest", "time_diff"}

\* The names the report's f-string reads.
TravelReportNames ==
    {"origin", "dest", "distance_km", "abs", "time_diff", "origin_info", "dest_info"}

(***************************************************************************)
(* get_travel_info, in two steps: up to and including the first read of    *)
(* the clock (now_origin), and from the second read (now_dest) on.         *)
(***************************************************************************)
Continue(locals) == [kind |-> "continue", locals |-> locals]

get_travel_info_begin(db, zones, t, origin, destination) ==
    LET origin_lower == Strip(Lower(origin))
        dest_lower == Strip(Lower(destination))
    IN IF ~HasKey(db, origin_lower) \/ ~HasKey(db, dest_lower)
       THEN Returns([status |-> "error",
                     error_message |->
                         [text |-> "Travel info requires both cities to be in our database. I can try a web search for information about these cities."]])
       ELSE LET origin_info == Get(db, origin_lower)
                dest_info == Get(db, dest_lower)
                a == HaversineA(origin_info.coordinates, dest_info.coordinates)
            IN IF ~HaversineDefined(a) THEN Raises("ValueError")
               ELSE IF ~ZoneInfoKnown(zones, origin_info.timezone)
                       \/ ~ZoneInfoKnown(zones, dest_info.timezone)
               THEN Raises("ZoneInfoNotFoundError")
               ELSE Continue([origin |-> origin, destination |-> destination,
                              origin_info |-> origin_info, dest_info |-> dest_info,
                              distance_km |-> HaversineKm(a),
                              now_origin |-> Now(origin_info.timezone, t)])

get_travel_info_end(locals, t) ==
    LET now_dest == Now(locals.dest_info.timezone, t)
        time_diff == TotalHours(now_dest.utcoffset - locals.now_origin.utcoffset)
    IN IF ~Bound(TravelReportNames, TravelLocals) THEN Raises("NameError")
       ELSE Returns([status |-> "success",
                     report |->
                         [text |-> "Travel Info: {origin} -> {dest} / Distance / Time difference / Currency / Language",
                          origin |-> Title(locals.origin),
                          dest |-> Title(locals.destination),
                          distance |-> <<Round(locals.distance_km),
                                         Miles(locals.distance_km)>>,
                          time_difference |-> Round(Abs(time_diff)),
                          direction |-> IF time_diff > 0 THEN "ahead" ELSE "behind",
                          currency |-> <<locals.origin_info.currency,
                                         locals.dest_info.currency>>,
                          language |-> <<locals.origin_info.language,
                                         locals.dest_info.language>>],
                     distance_km |-> Round(locals.distance_km),
                     time_difference_hours |-> time_diff])

(***************************************************************************)
(* compare_cities.  The "time" branch is in two steps, like                *)
(* get_travel_info: up to and including now1, and from now2 on.  (The two  *)
(* calls of get_current_time before them read the clock too, but only      *)
(* their status is used.)                                                  *)
(***************************************************************************)
compare_weather(wd, city1, city2) ==
    LET weather1 == get_weather(wd, city1, FALSE).value
        weather2 == get_weather(wd, city2, FALSE).value
    IN IF weather1.status = "error" \/ weather2.status = "error"
       THEN IF ~HasKey(wd, Strip(Lower(city1))) \/ ~HasKey(wd, Strip(Lower(city2)))
            THEN Returns([status |-> "error",
                          error_message |->
                              [text |-> "Weather data missing for one or both cities. I can try a web search for current weather if you'd like."]])
            ELSE Returns([status |-> "error",
                          error_message |->
                              [text |-> "Cannot compare - one or both cities have no weather data"]])
       ELSE IF ~HasKey(wd, Lower(city1)) \/ ~HasKey(wd, Lower(city2))
       THEN \* WEATHER_DATA[city1.lower()], WEATHER_DATA[city2.lower()]
            Raises("KeyError")
       ELSE LET w1 == Get(wd, Lower(city1))
                w2 == Get(wd, Lower(city2))
                temp_diff == w1.temperature_c - w2.temperature_c
                humidity_diff == w1.humidity - w2.humidity
            IN Returns([status |-> "success",
                        report |->
                            [text |-> "Weather Comparison: {city1} vs {city2} / Temperature difference / Humidity difference",
                             city1 |-> <<Title(city1), w1.temperature_c, w1.condition>>,
                             city2 |-> <<Title(city2), w2.temperature_c, w2.condition>>,
                             temperature_difference |->
                                 << Abs(temp_diff),
                                    IF temp_diff > 0 THEN "warmer" ELSE "cooler",
                                    IF temp_diff > 0 THEN Title(city1) ELSE Title(city2) >>,
                             humidity_difference |->
                                 << Abs(humidity_diff),
                                    IF humidity_diff > 0 THEN "higher" ELSE "lower",
                                    IF humidity_diff > 0 THEN Title(city1) ELSE Title(city2) >>]])

compare_time_begin(db, zones, t, city1, city2) ==
    LET time1 == get_current_time(db, zones, t, city1, "standard").value
        time2 == get_current_time(db, zones, t, city2, "standard").value
    IN IF time1.status = "error" \/ time2.status = "error"
       THEN IF ~HasKey(db, Strip(Lower(city1))) \/ ~HasKey(db, Strip(Lower(city2)))
            THEN Returns([status |-> "error",
                          error_message |->
                              [text |-> "Timezone data unavailable for one or both cities in my database. I can search the web for current times."]])
            ELSE Returns([status |-> "error",
                          error_message |->
                              [text |-> "Cannot compare - timezone data unavailable for one or both cities"]])
       ELSE IF ~HasKey(db, Lower(city1)) \/ ~HasKey(db, Lower(city2))
       THEN \* CITY_DATABASE[city1.lower()], CITY_DATABASE[city2.lower()]
            Raises("KeyError")
       ELSE LET tz1 == Get(db, Lower(city1)).timezone
                tz2 == Get(db, Lower(city2)).timezone
            IN IF ~ZoneInfoKnown(zones, tz1) \/ ~ZoneInfoKnown(zones, tz2)
               THEN Raises("ZoneInfoNotFoundError")
               ELSE Continue([city1 |-> city1, city2 |-> city2,
                              tz1 |-> tz1, tz2 |-> tz2, now1 |-> Now(tz1, t)])

compare_time_end(locals, t) ==
    LET now1 == locals.now1
        now2 == Now(locals.tz2, t)
        diff == TotalHours(now1.utcoffset - now2.utcoffset)
    IN Returns([status |-> "success",
                report |->
                    [text |-> "Time Comparison: {city1} vs {city2} / Time difference: {abs(diff):.0f} hours ({ahead} is ahead)",
                     city1 |-> <<Title(locals.city1), now1>>,
                     city2 |-> <<Title(locals.city2), now2>>,
                     time_difference |-> Round(Abs(diff)),
                     ahead |-> IF diff > 0 THEN Title(locals.city1)
                               ELSE Title(locals.city2)]])

compare_info(db, city1, city2) ==
    LET info1 == get_city_info(db, city1).value
        info2 == get_city_info(db, city2).value
    IN IF info1.status = "error" \/ info2.status = "error"
       THEN Returns([status |-> "error",
                     error_message |->
                         [text |-> "City info missing for comparison. I can try searching the web for {city1} or {city2} if they are not in my database.",
                          city1 |-> city1, city2 |-> city2]])
       ELSE Returns([status |-> "error",
                     error_message |->
                         [text |-> "Invalid comparison type or not fully implemented for 'info'. Use 'weather' or 'time', or I can search for general info on both."]])

\* The first step of compare_cities: the whole call, except in the "time"
\* branch when it gets as far as reading now1.
compare_cities_begin(db, wd, zones, t, city1, city2, comparison_type) ==
    IF comparison_type = "weather" THEN compare_weather(wd, city1, city2)
    ELSE IF comparison_type = "time" THEN compare_time_begin(db, zones, t, city1, city2)
    ELSE compare_info(db, city1, city2)

(***************************************************************************)
(* The arguments the callers pass.                                         *)
(***************************************************************************)
CatalogKeys == {InitialCityDatabase[i].key : i \in 1..Len(InitialCityDatabase)}

\* Spellings of a key that differ from it in letter case and in leading and
\* trailing whitespace only.
Variants(k) ==
    {k, Upper(k), Title(k), <<" ">> \o Title(k) \o <<" ">>, <<"\t">> \o Upper(k)}

Berlin == <<"b","e","r","l","i","n">>

\* Names that normalize to no key of either table.
UnknownNames ==
    {Berlin, <<" ">> \o Title(Berlin), <<>>, <<" ">>, <<"l","o","n">>,
     <<"l","o","n","d","o","n","s">>, <<"n","e","w","y","o","r","k">>,
     <<"l","o","n"," ","d","o","n">>}

Names == UNION {Variants(k) : k \in CatalogKeys} \cup UnknownNames

\* The names passed to the two-city tools: every key, some other spellings
\* of a key, and names of no city.
PairNames ==
    CatalogKeys
    \cup {<<" ">> \o Title(<<"l","o","n","d","o","n">>) \o <<" ">>,
          Upper(<<"t","o","k","y","o">>),
          Title(<<"n","e","w"," ","y","o","r","k">>)}
    \cup {Berlin, <<>>}

Queries ==
    {<<>>, <<" ">>, <<"o","n">>, <<"O","N">>, <<"u","n","i","t","e","d">>,
     <<"U","n","i","t","e","d"," ">>, <<" ","l","o","n","d","o","n">>,
     <<"n","e","w"," ">>, <<"w"," ","y">>, <<"d"," ","s">>, <<"a">>,
     <<"u","a","e">>, <<"J","a","p","a","n">>, <<"y">>, <<"i","a">>,
     <<"z","z","z","z","n","o","t","a","c","i","t","y">>, <<"x">>,
     <<"l","o","n","d","o","n","s">>, <<"\t","Z","Z"," ">>}

Workload ==
    [cities |-> Names, pairs |-> PairNames, queries |-> Queries,
     formats |-> {"standard", "iso", "verbose"},
     days |-> {0, 1, 3, 7, 8},
     types |-> {"weather", "time", "info"}]

SmallWorkload ==
    [cities |-> {<<"l","o","n","d","o","n">>, Berlin},
     pairs |-> {<<"l","o","n","d","o","n">>, Berlin},
     queries |-> {<<"o","n">>, <<"x">>},
     formats |-> {"standard"},
     days |-> {2},
     types |-> {"weather", "time", "info"}]

(***************************************************************************)
(* The state machine.  pc[t] is "idle" (thread t is in no tool), the name  *)
(* of the two-step tool it is in the middle of, or "done" (the tool has    *)
(* returned or raised and the caller has not yet taken ret[t]).            *)
(***************************************************************************)
NoFrame == [op |-> "none"]

Init ==
    /\ CITY_DATABASE = InitialCityDatabase
    /\ WEATHER_DATA = InitialWeatherData
    /\ tzdb \in TzDatabases
    /\ clock = 0
    /\ pc = [t \in Threads |-> "idle"]
    /\ frame = [t \in Threads |-> NoFrame]
    /\ ret = [t \in Threads |-> NoRet]

\* Thread t's call op(args) ends with outcome o.
Finish(t, op, args, o) ==
    /\ ret' = [ret EXCEPT ![t] = Outcome(op, args, o)]
    /\ pc' = [pc EXCEPT ![t] = "done"]
    /\ frame' = [frame EXCEPT ![t] = NoFrame]

\* Thread t's call op(args) ends with outcome o, or goes on to its second step.
FinishOrContinue(t, op, args, o) ==
    IF o.kind = "continue"
    THEN /\ pc' = [pc EXCEPT ![t] = op]
         /\ frame' = [frame EXCEPT ![t] = [op |-> op, args |-> args, locals |-> o.locals]]
         /\ ret' = ret
    ELSE Finish(t, op, args, o)

CallGetWeather(t, w) ==
    /\ pc[t] = "idle"
    /\ \E city \in w.cities, detailed \in BOOLEAN :
          Finish(t, "get_weather", <<city, detailed>>,
                 get_weather(WEATHER_DATA, city, detailed))
    /\ UNCHANGED <<CITY_DATABASE, WEATHER_DATA, tzdb, clock>>

CallGetCurrentTime(t, w) ==
    /\ pc[t] = "idle"
    /\ \E city \in w.cities, format_type \in w.formats :
          Finish(t, "get_current_time", <<city, format_type>>,
                 get_current_time(CITY_DATABASE, tzdb, clock, city, format_type))
    /\ UNCHANGED <<CITY_DATABASE, WEATHER_DATA, tzdb, clock>>

CallGetCityInfo(t, w) ==
    /\ pc[t] = "idle"
    /\ \E city \in w.cities :
          Finish(t, "get_city_info", <<city>>, get_city_info(CITY_DATABASE, city))
    /\ UNCHANGED <<CITY_DATABASE, WEATHER_DATA, tzdb, clock>>

\* Faulty variant: the loop stores each day's temperature in base_weather, which is
\* the table's own dict.
CallGetWeatherForecastStoring(t, w) ==
    /\ pc[t] = "idle"
    /\ \E city \in w.cities, days \in w.days :
          LET o == get_weather_forecast(WEATHER_DATA, clock, city, days) IN
          /\ Finish(t, "get_weather_forecast", <<city, days>>, o)
          /\ WEATHER_DATA' =
                IF o.value.status = "success"
                THEN [i \in 1..Len(WEATHER_DATA) |->
                        IF WEATHER_DATA[i].key = Strip(Lower(city))
                        THEN Item(WEATHER_DATA[i].key,
                                  [WEATHER_DATA[i].value EXCEPT
                                      !.temperature_c = o.value.report.lines[days].temp_c])
                        ELSE WEATHER_DATA[i]]
                ELSE WEATHER_DATA
    /\ UNCHANGED <<CITY_DATABASE, tzdb, clock>>

CallGetWeatherForecast(t, w) ==
    /\ pc[t] = "idle"
    /\ \E city \in w.cities, days \in w.days :
          Finish(t, "get_weather_forecast", <<city, days>>,
                 get_weather_forecast(WEATHER_DATA, clock, city, days))
    /\ UNCHANGED <<CITY_DATABASE, WEATHER_DATA, tzdb, clock>>

CallSearchCitiesInDatabase(t, w) ==
    /\ pc[t] = "idle"
    /\ \E query \in w.queries :
          Finish(t, "search_cities_in_database", <<query>>,
                 search_cities_in_database(CITY_DATABASE, query))
    /\ UNCHANGED <<CITY_DATABASE, WEATHER_DATA, tzdb, clock>>

CallGetTravelInfo(t, w) ==
    /\ pc[t] = "idle"
    /\ \E origin \in w.pairs, destination \in w.pairs :
          FinishOrContinue(t, "get_travel_info", <<origin, destination>>,
              get_travel_info_begin(CITY_DATABASE, tzdb, clock, origin, destination))
    /\ UNCHANGED <<CITY_DATABASE, WEATHER_DATA, tzdb, clock>>

\* The rest of get_travel_info, from now_dest on.
TravelNowDest(t) ==
    /\ pc[t] = "get_travel_info"
    /\ Finish(t, "get_travel_info", frame[t].args,
              get_travel_info_end(frame[t].locals, clock))
    /\ UNCHANGED <<CITY_DATABASE, WEATHER_DATA, tzdb, clock>>

CallCompareCities(t, w) ==
    /\ pc[t] = "idle"
    /\ \E city1 \in w.pairs, city2 \in w.pairs, comparison_type \in w.types :
          FinishOrContinue(t, "compare_cities", <<city1, city2, comparison_type>>,
              compare_cities_begin(CITY_DATABASE, WEATHER_DATA, tzdb, clock,
                                   city1, city2, comparison_type))
    /\ UNCHANGED <<CITY_DATABASE, WEATHER_DATA, tzdb, clock>>

\* The rest of compare_cities(..., "time"), from now2 on.
CompareNow2(t) ==
    /\ pc[t] = "compare_cities"
    /\ Finish(t, "compare_cities", frame[t].args,
              compare_time_end(frame[t].locals, clock))
    /\ UNCHANGED <<CITY_DATABASE, WEATHER_DATA, tzdb, clock>>

\* The caller takes the result; the thread is free for its next call.
TakeResult(t) ==
    /\ pc[t] = "done"
    /\ pc' = [pc EXCEPT ![t] = "idle"]
    /\ ret' = [ret EXCEPT ![t] = NoRet]
    /\ UNCHANGED <<CITY_DATABASE, WEATHER_DATA, tzdb, clock, frame>>

\* The interval in which thread t, in the middle of a two-step tool, read
\* the clock first.
FirstRead(t) ==
    IF pc[t] = "get_travel_info" THEN frame[t].locals.now_origin.instant
    ELSE frame[t].locals.now1.instant

\* Time passes: the next daylight-saving transition happens.  A call is far
\* shorter than the days between two transitions, so no call in progress
\* has seen an earlier one.
Tick ==
    /\ clock < MaxClock
    /\ \A t \in Threads :
          pc[t] \in {"get_travel_info", "compare_cities"} => FirstRead(t) = clock
    /\ clock' = clock + 1
    /\ UNCHANGED <<CITY_DATABASE, WEATHER_DATA, tzdb, pc, frame, ret>>

Step(t, w) ==
    \/ CallGetWeather(t, w)
    \/ CallGetCurrentTime(t, w)
    \/ CallGetCityInfo(t, w)
    \/ CallGetWeatherForecast(t, w)
    \/ CallSearchCitiesInDatabase(t, w)
    \/ CallGetTravelInfo(t, w)
    \/ TravelNowDest(t)
    \/ CallCompareCities(t, w)
    \/ CompareNow2(t)
    \/ TakeResult(t)

\* One caller, as the agent runner invokes the tools one at a time.
Sequential == {1}

Next == (\E t \in Sequential : Step(t, Workload)) \/ Tick

Spec == Init /\ [][Next]_vars

\* Several callers at once.
NextConc == (\E t \in Threads : Step(t, SmallWorkload)) \/ Tick

SpecConc == Init /\ [][NextConc]_vars

(***************************************************************************)
(* A caller that modifies the results it receives.  city_data is           *)
(* city_info.__dict__, the attribute dict of the catalog's own CityInfo    *)
(* object, and raw_data is the dict stored in WEATHER_DATA: an assignment  *)
(* to a key of either is an assignment to the table's record.  Every other *)
(* field of a result is built by the call (strings, numbers, new lists and *)
(* dicts), and assigning to it changes the caller's result only.           *)
(***************************************************************************)
SharedFields == {"city_data", "raw_data"}

\* table[k][field] = v
Store(table, k, field, v) ==
    [i \in 1..Len(table) |->
        IF table[i].key = k
        THEN Item(k, [table[i].value EXCEPT ![field] = v])
        ELSE table[i]]

\* result[field] = None, for a field the call built
ModifyOwnField(t) ==
    /\ pc[t] = "done"
    /\ ret[t].kind = "return"
    /\ \E field \in DOMAIN ret[t].value \ SharedFields :
          ret' = [ret EXCEPT ![t].value[field] = None]
    /\ UNCHANGED <<CITY_DATABASE, WEATHER_DATA, tzdb, clock, pc, frame>>

\* result["city_data"]["population"] = 0
ModifyCityData(t) ==
    /\ pc[t] = "done"
    /\ ret[t].kind = "return"
    /\ "city_data" \in DOMAIN ret[t].value
    /\ CITY_DATABASE' =
          Store(CITY_DATABASE, ret[t].value.city_data.key, "population", 0)
    /\ UNCHANGED <<WEATHER_DATA, tzdb, clock, pc, frame, ret>>

\* result["raw_data"]["temperature_c"] = 0
ModifyRawData(t) ==
    /\ pc[t] = "done"
    /\ ret[t].kind = "return"
    /\ "raw_data" \in DOMAIN ret[t].value
    /\ ret[t].value.raw_data # None
    /\ WEATHER_DATA' =
          Store(WEATHER_DATA, ret[t].value.raw_data.key, "temperature_c", 0)
    /\ UNCHANGED <<CITY_DATABASE, tzdb, clock, pc, frame, ret>>

NextCaller ==
    \/ \E t \in Sequential :
          \/ Step(t, SmallWorkload)
          \/ ModifyOwnField(t)
          \/ ModifyCityData(t)
          \/ ModifyRawData(t)
    \/ Tick

SpecCaller == Init /\ [][NextCaller]_vars

(***************************************************************************)
(* The claims.  A call is judged when it has ended: ret[t] then holds the  *)
(* call and what it returned or raised.                                    *)
(***************************************************************************)
\* The specification's normalization of a name: trim, then lowercase.
Normalize(name) == Lower(Strip(name))

Ended(t, op) == ret[t].kind # "none" /\ ret[t].op = op

InCatalog(name) == HasKey(InitialCityDatabase, Normalize(name))

InWeather(name) == HasKey(InitialWeatherData, Normalize(name))

TimezoneOf(name) == Get(InitialCityDatabase, Normalize(name)).timezone

\* A result value that reports a failure and carries nothing else.
IsErrorResult(r) ==
    /\ r.kind = "return"
    /\ r.value.status = "error"
    /\ DOMAIN r.value = {"status", "error_message"}

\* C1: for every origin and destination that both normalize to keys of the
\* city catalog (records whose timezone the runtime knows), get_travel_info
\* has no error outcome: it returns a success result carrying the distance
\* and the time difference, and it never raises.
C1_TravelInfoSucceeds ==
    \A t \in Threads :
        ( /\ Ended(t, "get_travel_info")
          /\ InCatalog(ret[t].args[1]) /\ InCatalog(ret[t].args[2])
          /\ TimezoneOf(ret[t].args[1]) \in tzdb
          /\ TimezoneOf(ret[t].args[2]) \in tzdb )
        => /\ ret[t].kind = "return"
           /\ ret[t].value.status = "success"
           /\ {"distance_km", "time_difference_hours"} \subseteq DOMAIN ret[t].value

\* C2: a name whose normalized form is not a key of the relevant table is
\* reported as an error result value, never as an exception: get_weather and
\* get_weather_forecast (WEATHER_DATA), get_current_time and get_city_info
\* (CITY_DATABASE) and get_travel_info (CITY_DATABASE, either name) each
\* return status "error" with an error message and no success field.
C2_NotFoundIsErrorResult ==
    \A t \in Threads :
        /\ (Ended(t, "get_weather") /\ ~InWeather(ret[t].args[1]))
              => IsErrorResult(ret[t])
        /\ (Ended(t, "get_weather_forecast") /\ ~InWeather(ret[t].args[1]))
              => IsErrorResult(ret[t])
        /\ (Ended(t, "get_current_time") /\ ~InCatalog(ret[t].args[1]))
              => IsErrorResult(ret[t])
        /\ (Ended(t, "get_city_info") /\ ~InCatalog(ret[t].args[1]))
              => IsErrorResult(ret[t])
        /\ (Ended(t, "get_travel_info")
              /\ (~InCatalog(ret[t].args[1]) \/ ~InCatalog(ret[t].args[2])))
              => IsErrorResult(ret[t])

\* C2's case: get_weather was asked for a city of the city catalog that the
\* weather table lacks.
C2_Witness ==
    /\ Ended(1, "get_weather")
    /\ InCatalog(ret[1].args[1]) /\ ~InWeather(ret[1].args[1])
    /\ IsErrorResult(ret[1])

\* The spellings of a name that differ from it in letter case and in
\* leading and trailing whitespace only.
Respellings(name) ==
    {left \o spelt \o right :
        spelt \in UNION {{base, Upper(base), Lower(base), Title(base)} :
                            base \in {name, Strip(name)}},
        left \in {<<>>, <<" ">>, <<"\t", " ">>},
        right \in {<<>>, <<" ">>, <<" ", "\n">>}}

\* C3: lookup is insensitive to case and surrounding whitespace: for every
\* name and every spelling of it that differs only in letter case or in
\* leading or trailing whitespace, get_city_info returns the same status and
\* the identical catalog record (the record stored under the normalized name).
C3_LookupIgnoresCaseAndSpace ==
    \A t \in Threads :
        Ended(t, "get_city_info") =>
            \A v \in Respellings(ret[t].args[1]) :
                LET o == get_city_info(CITY_DATABASE, v) IN
                /\ o.kind = ret[t].kind
                /\ o.value.status = ret[t].value.status
                /\ o.value.status = "success" =>
                      /\ o.value.city_data = ret[t].value.city_data
                      /\ o.value.city_data = Ref("CITY_DATABASE", Normalize(v))
                      /\ o.value.report = ret[t].value.report

\* C3's case: the lookup of " London " found the record stored under "london".
C3_Witness ==
    /\ Ended(1, "get_city_info")
    /\ ret[1].args[1] = <<" ", "L", "o", "n", "d", "o", "n", " ">>
    /\ ret[1].value.status = "success"
    /\ ret[1].value.city_data = Ref("CITY_DATABASE", <<"l", "o", "n", "d", "o", "n">>)

\* The catalog records (by position) whose key, display name or country
\* contains q, letter case ignored.
Containing(q) ==
    {i \in 1..Len(InitialCityDatabase) :
        \/ Contains(Lower(q), Lower(InitialCityDatabase[i].key))
        \/ Contains(Lower(q), Lower(InitialCityDatabase[i].value.name))
        \/ Contains(Lower(q), Lower(InitialCityDatabase[i].value.country))}

\* C4 as claimed: a search whose query matches no catalog record returns an
\* empty sequence of matches as a valid result, not an error outcome.
C4_EmptySearchIsValid ==
    \A t \in Threads :
        (Ended(t, "search_cities_in_database") /\ Containing(ret[t].args[1]) = {})
        => /\ ret[t].kind = "return"
           /\ ret[t].value.status = "success"
           /\ ret[t].value.matches = <<>>

\* C4 as amended: a search whose trimmed query is contained in no catalog
\* record's key, display name or country returns an error result: status
\* "error" with an error message, and no sequence of matches and no count.
C4_EmptySearchIsError ==
    \A t \in Threads :
        (Ended(t, "search_cities_in_database")
            /\ Containing(Strip(ret[t].args[1])) = {})
        => IsErrorResult(ret[t])

\* C4's case: the search for "zzzznotacity" has returned.
C4_Witness ==
    /\ Ended(1, "search_cities_in_database")
    /\ ret[1].args[1] = <<"z","z","z","z","n","o","t","a","c","i","t","y">>
    /\ ret[1].kind = "return"
    /\ ret[1].value.status = "error"

\* What a search reports of the catalog record at position i.
Reported(i) ==
    [name |-> InitialCityDatabase[i].value.name,
     country |-> InitialCityDatabase[i].value.country,
     population |-> InitialCityDatabase[i].value.population]

\* The records a result returns: none when it reports an error.
Returned(r) == IF r.value.status = "success" THEN r.value.matches ELSE <<>>

\* r returns exactly the records at the positions in found, each once, in
\* catalog insertion order, and the count it reports is their number.
ReturnsExactly(r, found) ==
    /\ r.kind = "return"
    /\ Len(Returned(r)) = Cardinality(found)
    /\ \A i \in found :
          Returned(r)[Cardinality({j \in found : j <= i})] = Reported(i)
    /\ r.value.status = "success" => r.value.count = Len(r.value.matches)

\* C5 as claimed: for every query, search returns exactly the catalog records
\* whose key, display name or country contains the query as a
\* case-insensitive substring, in catalog insertion order, and the reported
\* count equals the number of records returned.
C5_SearchReturnsContaining ==
    \A t \in Threads :
        Ended(t, "search_cities_in_database")
        => ReturnsExactly(ret[t], Containing(ret[t].args[1]))

\* C5 as amended: for every query whose trimmed form is contained, letter case
\* ignored, in the key, display name or country of at least one catalog
\* record, search returns exactly those records (each once, in catalog
\* insertion order) and the reported count equals their number.
C5_SearchReturnsContainingTrimmed ==
    \A t \in Threads :
        (Ended(t, "search_cities_in_database")
            /\ Containing(Strip(ret[t].args[1])) # {})
        => /\ ReturnsExactly(ret[t], Containing(Strip(ret[t].args[1])))
           /\ ret[t].value.status = "success"

\* C5's case: the search for "United " found New York and London, by their
\* countries.
C5_Witness ==
    /\ Ended(1, "search_cities_in_database")
    /\ ret[1].args[1] = <<"U","n","i","t","e","d"," ">>
    /\ ret[1].value.status = "success"
    /\ ret[1].value.count = 2
    /\ ret[1].value.matches[2].name = <<"L","o","n","d","o","n">>

\* C6: the catalog is read-only after initialization: after any sequence and
\* any interleaving of calls of the seven tools, successful or failing, the
\* contents of CITY_DATABASE and WEATHER_DATA equal their initial contents.
C6_CatalogUnchanged ==
    /\ CITY_DATABASE = InitialCityDatabase
    /\ WEATHER_DATA = InitialWeatherData

\* C6's case: one thread's forecast has succeeded while the other thread is in
\* the middle of get_travel_info, after a daylight-saving transition.
C6_Witness ==
    /\ Ended(1, "get_weather_forecast")
    /\ ret[1].value.status = "success"
    /\ pc[2] = "get_travel_info"
    /\ clock > 0
    /\ C6_CatalogUnchanged

\* The UTC offset, at instant i, of the zone of the catalog city named name.
OffsetAt(name, i) == UtcOffset(TimezoneOf(name), i)

\* C7: for two catalog cities (whose timezones the runtime knows), the time
\* difference returned by get_travel_info equals the destination's UTC offset
\* minus the origin's in hours, fractions kept, and the destination is
\* reported as ahead exactly when that difference is greater than 0.
C7_TimeDifferenceReturned ==
    \A t \in Threads :
        ( /\ Ended(t, "get_travel_info")
          /\ InCatalog(ret[t].args[1]) /\ InCatalog(ret[t].args[2])
          /\ TimezoneOf(ret[t].args[1]) \in tzdb
          /\ TimezoneOf(ret[t].args[2]) \in tzdb )
        => /\ ret[t].kind = "return"
           /\ ret[t].value.status = "success"
           /\ \E i \in 0..MaxClock :
                 ret[t].value.time_difference_hours =
                     TotalHours(OffsetAt(ret[t].args[2], i) - OffsetAt(ret[t].args[1], i))
           /\ ret[t].value.report.direction = "ahead"
                 <=> ret[t].value.time_difference_hours > 0

\* C8: the time-offset difference of two cities is computed from both cities'
\* UTC offsets at one and the same instant, whatever the clock does while
\* get_travel_info or compare_cities("time") runs: what a successful call
\* reports is offset(b) - offset(a) evaluated at a single instant.
C8_DifferenceAtOneInstant ==
    \A t \in Threads :
        /\ ( /\ Ended(t, "compare_cities")
             /\ ret[t].args[3] = "time"
             /\ ret[t].kind = "return"
             /\ ret[t].value.status = "success" )
           => \E i \in 0..MaxClock :
                 LET diff == TotalHours(OffsetAt(ret[t].args[1], i)
                                        - OffsetAt(ret[t].args[2], i))
                 IN /\ ret[t].value.report.time_difference = Round(Abs(diff))
                    /\ ret[t].value.report.ahead =
                          IF diff > 0 THEN Title(ret[t].args[1])
                          ELSE Title(ret[t].args[2])
        /\ ( /\ Ended(t, "get_travel_info")
             /\ ret[t].kind = "return"
             /\ ret[t].value.status = "success" )
           => \E i \in 0..MaxClock :
                 ret[t].value.time_difference_hours =
                     TotalHours(OffsetAt(ret[t].args[2], i) - OffsetAt(ret[t].args[1], i))

\* The call of thread t resolves the timezone of a catalog record that the
\* runtime's timezone database does not know.
ResolvesUnknownTimezone(t) ==
    \/ /\ Ended(t, "get_current_time")
       /\ InCatalog(ret[t].args[1])
       /\ TimezoneOf(ret[t].args[1]) \notin tzdb
    \/ /\ \/ Ended(t, "get_travel_info")
          \/ Ended(t, "compare_cities") /\ ret[t].args[3] = "time"
       /\ InCatalog(ret[t].args[1]) /\ InCatalog(ret[t].args[2])
       /\ \/ TimezoneOf(ret[t].args[1]) \notin tzdb
          \/ TimezoneOf(ret[t].args[2]) \notin tzdb

\* C9: if a catalog record's timezone identifier is not recognized by the
\* runtime's timezone database, every operation that resolves it
\* (get_current_time, compare_cities of type "time", get_travel_info) fails
\* with an explicit error result and does not raise.
C9_UnknownTimezoneIsErrorResult ==
    \A t \in Threads :
        ResolvesUnknownTimezone(t)
        => /\ ret[t].kind = "return"
           /\ ret[t].value.status = "error"

\* C10: the great-circle distance is symmetric: the distance get_travel_info
\* computes from a to b equals the one it computes from b to a.
C10_DistanceSymmetric ==
    \A t \in Threads :
        pc[t] = "get_travel_info"
        => frame[t].locals.distance_km =
              HaversineKm(HaversineA(frame[t].locals.dest_info.coordinates,
                                     frame[t].locals.origin_info.coordinates))

\* C10's case: get_travel_info has computed the distance from Sydney to London.
C10_Witness ==
    /\ pc[1] = "get_travel_info"
    /\ frame[1].args = << <<"s","y","d","n","e","y">>, <<"l","o","n","d","o","n">> >>
    /\ frame[1].locals.distance_km > 0
    /\ frame[1].locals.origin_info.coordinates # frame[1].locals.dest_info.coordinates

\* C11: compare_cities supports the comparison type "info" that its
\* documentation lists: for two names that both normalize to keys of the city
\* catalog, a comparison of type "info" returns a success result.
C11_InfoComparisonSucceeds ==
    \A t \in Threads :
        ( /\ Ended(t, "compare_cities")
          /\ ret[t].args[3] = "info"
          /\ InCatalog(ret[t].args[1]) /\ InCatalog(ret[t].args[2]) )
        => /\ ret[t].kind = "return"
           /\ ret[t].value.status = "success"

\* C12: compare_cities resolves names as the single-city lookups do: for
\* comparison type "weather" (resp. "time"), whenever get_weather (resp.
\* get_current_time) succeeds for both names, names with leading or trailing
\* whitespace included, compare_cities returns a success result and does not
\* raise.
C12_CompareResolvesAsLookups ==
    \A t \in Threads :
        /\ ( /\ Ended(t, "compare_cities")
             /\ ret[t].args[3] = "weather"
             /\ \A i \in {1, 2} :
                   get_weather(WEATHER_DATA, ret[t].args[i], FALSE).value.status
                       = "success" )
           => /\ ret[t].kind = "return"
              /\ ret[t].value.status = "success"
        /\ ( /\ Ended(t, "compare_cities")
             /\ ret[t].args[3] = "time"
             /\ \A i \in {1, 2} :
                   get_current_time(CITY_DATABASE, tzdb, clock, ret[t].args[i],
                                    "standard").value.status = "success" )
           => /\ ret[t].kind = "return"
              /\ ret[t].value.status = "success"

\* C13: results are owned solely by the caller: no value an operation
\* returns shares mutable state with the tables, so whatever a caller does to
\* the results it received, a lookup of a city returns what it returned
\* before: get_city_info and get_weather give the results they give on the
\* tables as loaded.
C13_ResultsOwnedByCaller ==
    \A city \in SmallWorkload.cities :
        /\ get_city_info(CITY_DATABASE, city)
              = get_city_info(InitialCityDatabase, city)
        /\ \A detailed \in BOOLEAN :
              get_weather(WEATHER_DATA, city, detailed)
                  = get_weather(InitialWeatherData, city, detailed)

====
